---- MODULE Spec2Model ----
(***************************************************************************)
(* Variable graph of the tracing JIT compiler: the variable table, the     *)
(* common-subexpression (CSE) table, the pointer-literal table, the dual   *)
(* reference counts and the per-stream pending sets (ssa.cpp), together    *)
(* with stream selection (init.cpp).                                       *)
(***************************************************************************)
EXTENDS Integers, FiniteSets, Sequences, TLC

(***************************************************************************)
(* Bounds of the model.                                                    *)
(***************************************************************************)
\* largest variable id that may be handed out
MaxIndex == 3
\* largest array size the host asks for
MaxSize == 3
\* largest external reference count the host builds up with inc_ref_ext
MaxRef == 2
\* number of host streams that device_set may select
MaxStream == 2
\* number of distinct host addresses handed to register / register_ptr
MaxPtr == 1
\* largest number of CUDA devices that initialization may find
MaxDevice == 1

(***************************************************************************)
(* Values.                                                                 *)
(***************************************************************************)
\* the null pointer (char *stmt, void *data)
NullStmt == "<null>"
NullPtr == 0
\* the statement inserted by the copy path of jit_var_set_size
MovStmt == "mov.$t1 $r1, $r2"
\* a statement matched by strstr(stmt, "st.global")
ScatterStmt == "st.global.$t3 [$r1], $r3"
\* the statements the host appends; none contains ".ftz", so the CUDA
\* normalisation of jit_trace_append(Variable&) leaves them as they are
AddStmt == "add.$t0 $r0, $r1, $r2"
Stmts == {AddStmt, ScatterStmt}
Types == {"f32"}
PointerType == "ptr"
Sizes == 1..MaxSize
Ids == 1..MaxIndex
HostPtrs == 1..MaxPtr
\* address of the buffer that evaluation allocates for variable id
DevicePtr(id) == 100 + id
\* the host CPU device of device_set
HostDevice == 0 - 1
\* active_stream == nullptr
NoStream == <<>>
NoDep == <<0, 0, 0>>

\* f without the key k
Erase(f, k) == [x \in (DOMAIN f) \ {k} |-> f[x]]
\* f with k mapped to val
Put(f, k, val) == [x \in (DOMAIN f) \cup {k} |-> IF x = k THEN val ELSE f[x]]

VARIABLES
    variables,          \* state.variables: id -> Variable
    variable_from_key,  \* state.variable_from_key: VariableKey -> id
    variable_from_ptr,  \* state.variable_from_ptr: address -> id
    variable_index,     \* state.variable_index: next id
    todo,               \* state.streams: stream key -> Stream::todo
    active_stream,      \* the calling thread's active_stream
    active_stream2,     \* the active_stream of a second thread
    has_llvm,           \* state.has_llvm
    has_cuda,           \* state.has_cuda
    devices,            \* state.devices.size()
    mutex,              \* state.mutex: 0 when free, else the holding thread
    pc,                 \* where thread 1 is inside a blocking call
    terminated,         \* the process was ended by jit_fail or a crash
    held                \* references the host holds: id -> count

vars == <<variables, variable_from_key, variable_from_ptr, variable_index,
          todo, active_stream, active_stream2, has_llvm, has_cuda, devices,
          mutex, pc, terminated, held>>

(***************************************************************************)
(* The Variable record and its key in the CSE table.                       *)
(***************************************************************************)
\* a default-constructed Variable
NewVariable ==
    [type |-> "f32", size |-> 0, stmt |-> NullStmt, dep |-> NoDep,
     extra_dep |-> 0, data |-> NullPtr, tsize |-> 0,
     ref_count_ext |-> 0, ref_count_int |-> 0,
     free_variable |-> FALSE, direct_pointer |-> FALSE,
     side_effect |-> FALSE, dirty |-> FALSE]

\* VariableKey(v): the fields a CSE lookup compares
VariableKey(v) == <<v.type, v.stmt, v.dep, v.size>>

\* the program state an operation works on
State ==
    [variables |-> variables, variable_from_key |-> variable_from_key,
     variable_from_ptr |-> variable_from_ptr,
     variable_index |-> variable_index, todo |-> todo,
     active_stream |-> active_stream,
     has_llvm |-> has_llvm, has_cuda |-> has_cuda, devices |-> devices,
     fail |-> FALSE, evals |-> 0, log |-> <<>>, freed |-> <<>>,
     migrated |-> <<>>]

\* jit_fail(): the process ends
Fail(S) == [S EXCEPT !.fail = TRUE]

(***************************************************************************)
(* Reference counting and destruction.                                     *)
(***************************************************************************)
\* faulty variant, for comparison: the reference is not taken
jit_inc_ref_ext_var_Forgotten(S, index) == S

\* jit_inc_ref_ext(index, v)
jit_inc_ref_ext_var(S, index) ==
    [S EXCEPT !.variables[index].ref_count_ext = @ + 1]

\* jit_inc_ref_ext(index): nothing for the null id, jit_var() otherwise
jit_inc_ref_ext(S, index) ==
    IF S.fail \/ index = 0 THEN S
    ELSE IF index \notin DOMAIN S.variables THEN Fail(S)
    ELSE jit_inc_ref_ext_var(S, index)

\* jit_inc_ref_int(index, v)
jit_inc_ref_int_var(S, index) ==
    [S EXCEPT !.variables[index].ref_count_int = @ + 1]

\* the pending set that jit_dec_ref_ext erases the id from
EraseTodo(S, index) ==
    [S EXCEPT !.todo[S.active_stream] = @ \ {index}]

RECURSIVE jit_var_free(_, _), jit_dec_ref_ext(_, _), jit_dec_ref_int(_, _)

\* faulty variant, for comparison: the variable is freed as soon as its external count is zero,
\* whether or not other variables still refer to it
jit_dec_ref_ext_IgnoresInternal(S, index) ==
    IF S.fail THEN S
    ELSE IF index = 0 \/ DOMAIN S.variables = {} THEN S
    ELSE IF index \notin DOMAIN S.variables THEN Fail(S)
    ELSE IF S.variables[index].ref_count_ext = 0 THEN Fail(S)
    ELSE LET S1 == [S EXCEPT !.variables[index].ref_count_ext = @ - 1]
             v == S1.variables[index]
         IN  IF v.ref_count_ext # 0 THEN S1
             ELSE IF S1.active_stream = NoStream THEN Fail(S)
             ELSE jit_var_free(EraseTodo(S1, index), index)

\* jit_dec_ref_ext(index)
jit_dec_ref_ext(S, index) ==
    IF S.fail THEN S
    ELSE IF index = 0 \/ DOMAIN S.variables = {} THEN S
    ELSE IF index \notin DOMAIN S.variables THEN Fail(S)
    ELSE IF S.variables[index].ref_count_ext = 0 THEN Fail(S)
    ELSE LET S1 == [S EXCEPT !.variables[index].ref_count_ext = @ - 1]
             v == S1.variables[index]
         IN  IF v.ref_count_ext # 0 THEN S1
             \* active_stream->todo with active_stream == nullptr
             ELSE IF S1.active_stream = NoStream THEN Fail(S)
             ELSE LET S2 == EraseTodo(S1, index)
                  IN  IF v.ref_count_int = 0
                      THEN jit_var_free(S2, index) ELSE S2

\* faulty variant, for comparison: the count is decremented but the variable is never freed
jit_dec_ref_int_NeverFrees(S, index) ==
    IF S.fail THEN S
    ELSE IF index = 0 \/ DOMAIN S.variables = {} THEN S
    ELSE IF index \notin DOMAIN S.variables THEN Fail(S)
    ELSE IF S.variables[index].ref_count_int = 0 THEN Fail(S)
    ELSE [S EXCEPT !.variables[index].ref_count_int = @ - 1]

\* jit_dec_ref_int(index)
jit_dec_ref_int(S, index) ==
    IF S.fail THEN S
    ELSE IF index = 0 \/ DOMAIN S.variables = {} THEN S
    ELSE IF index \notin DOMAIN S.variables THEN Fail(S)
    ELSE IF S.variables[index].ref_count_int = 0 THEN Fail(S)
    ELSE LET S1 == [S EXCEPT !.variables[index].ref_count_int = @ - 1]
             v == S1.variables[index]
         IN  IF v.ref_count_ext = 0 /\ v.ref_count_int = 0
             THEN jit_var_free(S1, index) ELSE S1

\* jit_free(ptr): the allocation is handed back to the allocator
jit_free(S, ptr) == [S EXCEPT !.freed = Append(@, ptr)]

\* jit_var_free(index, v)
jit_var_free(S, index) ==
    LET v == S.variables[index]
        S0 == [S EXCEPT !.variable_from_key = Erase(@, VariableKey(v))]
        S1 == IF v.free_variable /\ v.data # NullPtr
              THEN jit_free(S0, v.data) ELSE S0
    IN  IF v.direct_pointer /\ v.data \notin DOMAIN S1.variable_from_ptr
        THEN Fail(S)
        ELSE
        LET S2 == IF v.direct_pointer
                  THEN [S1 EXCEPT !.variable_from_ptr = Erase(@, v.data)]
                  ELSE S1
            S3 == [S2 EXCEPT !.variables = Erase(@, index)]
            S4 == jit_dec_ref_int(S3, v.dep[1])
            S5 == jit_dec_ref_int(S4, v.dep[2])
            S6 == jit_dec_ref_int(S5, v.dep[3])
        IN  jit_dec_ref_ext(S6, v.extra_dep)

(***************************************************************************)
(* Evaluation (eval.cpp is not part of the sources; it is modelled from    *)
(* the specification, section 4.3 "Post-launch" and "Dirty propagation").  *)
(***************************************************************************)
\* one pending root: install its buffer, leave the CSE table, drop its
\* operands and its pinned operand, leave the pending set
EvalRoot(S, index) ==
    IF S.fail THEN S
    ELSE IF index \notin DOMAIN S.variables THEN Fail(S)
    ELSE LET v == S.variables[index]
             S0 == [S EXCEPT !.todo[S.active_stream] = @ \ {index}]
         IN  IF v.data # NullPtr THEN S0
             ELSE
             LET S1 == [S0 EXCEPT
                     !.variable_from_key = Erase(@, VariableKey(v)),
                     !.variables[index].data = DevicePtr(index),
                     !.variables[index].free_variable = TRUE,
                     !.variables[index].stmt = NullStmt,
                     !.variables[index].dep = NoDep,
                     !.variables[index].extra_dep = 0]
                 S2 == jit_dec_ref_int(S1, v.dep[1])
                 S3 == jit_dec_ref_int(S2, v.dep[2])
                 S4 == jit_dec_ref_int(S3, v.dep[3])
                 S5 == jit_dec_ref_ext(S4, v.extra_dep)
             \* a side effect gives up the reference that kept it pending
             IN  jit_dec_ref_ext(S5, IF v.side_effect THEN index ELSE 0)

RECURSIVE EvalRoots(_, _)
\* the pending roots in dependency (id) order
EvalRoots(S, roots) ==
    IF roots = {} THEN S
    ELSE LET index == CHOOSE i \in roots : \A j \in roots : i <= j
         IN  EvalRoots(EvalRoot(S, index), roots \ {index})

\* the end of an evaluation: every dirty flag is cleared
ClearDirty(S) ==
    IF S.fail THEN S
    ELSE [S EXCEPT
            !.variables = [i \in DOMAIN @ |-> [@[i] EXCEPT !.dirty = FALSE]],
            !.evals = @ + 1]

\* jit_eval(): evaluate the active stream's pending set, then clear dirty
jit_eval(S) ==
    IF S.fail THEN S
    ELSE IF S.active_stream = NoStream THEN Fail(S)
    ELSE ClearDirty(EvalRoots(S, S.todo[S.active_stream]))

(***************************************************************************)
(* Appending to the trace.                                                 *)
(***************************************************************************)
\* the messages of the exceptions jit_raise throws
StreamError == "device and stream must be set"
NullOperandError == "arithmetic involving uninitialized variable"
ShapeError == "arithmetic involving arrays of incompatible size"
ResizeError == "attempted to resize variable"
RegisterError == "size must be > 0"
DeviceError == "invalid device ID"

\* the outcome of an operation: the state it leaves, how it ended
\* ("ok", or "raise" for jit_raise) and the id it returns
Ok(S, idx) == [S |-> S, result |-> "ok", idx |-> idx, what |-> ""]
\* jit_raise(what): what is the message of the exception
Raise(S, what) == [S |-> S, result |-> "raise", idx |-> 0, what |-> what]
Failed(S) == [S |-> Fail(S), result |-> "fail", idx |-> 0, what |-> ""]
\* the outcome of a call that left state S and returns idx unless it failed
Checked(S, idx) == IF S.fail THEN Failed(S) ELSE Ok(S, idx)

\* faulty variant, for comparison: no CSE lookup, every append inserts under a new id
jit_trace_append_var_NoReuse(S, v, strdup_null) ==
    IF v.stmt = NullStmt /\ strdup_null = "crash" THEN Failed(S)
    ELSE LET idx == S.variable_index
         IN  IF idx \in DOMAIN S.variables THEN Failed(S)
             ELSE Ok([S EXCEPT
                        !.variable_index = idx + 1,
                        !.variables = Put(@, idx, v),
                        !.variable_from_key = Put(@, VariableKey(v), idx)],
                     idx)

\* jit_trace_append(Variable &v): CSE lookup, then insertion under a new id.
\* strdup_null is what strdup(nullptr) does in this build: "crash" or "null"
jit_trace_append_var(S, v, strdup_null) ==
    IF v.stmt = NullStmt /\ strdup_null = "crash" THEN Failed(S)
    ELSE
    LET key == VariableKey(v)
    IN  IF key \notin DOMAIN S.variable_from_key
        THEN LET idx == S.variable_index
             IN  IF idx \in DOMAIN S.variables THEN Failed(S)
                 ELSE Ok([S EXCEPT
                            !.variable_index = idx + 1,
                            !.variables = Put(@, idx, v),
                            !.variable_from_key = Put(@, key, idx)], idx)
        ELSE LET idx == S.variable_from_key[key]
             IN  IF idx \notin DOMAIN S.variables THEN Failed(S)
                 ELSE Ok(S, idx)

\* the tail shared by the operand variants: append, take an external
\* reference, enter the pending set of the stream read at the start
AppendTail(S, v) ==
    LET R == jit_trace_append_var(S, v, "crash")
    IN  IF R.result # "ok" THEN R
        ELSE Ok([jit_inc_ref_ext_var(R.S, R.idx) EXCEPT
                    !.todo[S.active_stream] = @ \cup {R.idx}], R.idx)

\* the part of the operand variants after the evaluation a dirty operand
\* forces: look the operands up again, take an internal reference to each
\* and an external one to the pinned operand, then append
AppendOperands(S, v) ==
    IF S.fail \/ ({v.dep[1], v.dep[2], v.dep[3]} \ {0}) \ DOMAIN S.variables # {}
    THEN Failed(S)
    ELSE
    LET S1 == IF v.dep[1] = 0 THEN S ELSE jit_inc_ref_int_var(S, v.dep[1])
        S2 == IF v.dep[2] = 0 THEN S1 ELSE jit_inc_ref_int_var(S1, v.dep[2])
        S3 == IF v.dep[3] = 0 THEN S2 ELSE jit_inc_ref_int_var(S2, v.dep[3])
        S4 == jit_inc_ref_ext(S3, v.extra_dep)
    IN  IF S4.fail THEN Failed(S4) ELSE AppendTail(S4, v)

\* jit_trace_append(type, stmt)
jit_trace_append_0(S, type, stmt) ==
    IF S.active_stream = NoStream THEN Raise(S, StreamError)
    ELSE AppendTail(S, [NewVariable EXCEPT
                           !.type = type, !.size = 1, !.stmt = stmt,
                           !.tsize = 1])

\* faulty variant, for comparison: the evaluation a dirty operand forces
\* runs after the node has been appended
jit_trace_append_1_EvalLast(S, type, stmt, arg1) ==
    IF S.active_stream = NoStream THEN Raise(S, StreamError)
    ELSE IF arg1 = 0 THEN Raise(S, NullOperandError)
    ELSE IF arg1 \notin DOMAIN S.variables THEN Failed(S)
    ELSE
    LET v1 == S.variables[arg1]
        v == [NewVariable EXCEPT
                 !.type = type, !.size = v1.size, !.stmt = stmt,
                 !.dep = <<arg1, 0, 0>>, !.tsize = 1 + v1.tsize]
        R == AppendOperands(S, v)
    IN  IF R.result # "ok" \/ ~v1.dirty THEN R
        ELSE Checked(jit_eval(R.S), R.idx)

\* jit_trace_append(type, stmt, arg1)
jit_trace_append_1(S, type, stmt, arg1) ==
    IF S.active_stream = NoStream THEN Raise(S, StreamError)
    ELSE IF arg1 = 0 THEN Raise(S, NullOperandError)
    ELSE IF arg1 \notin DOMAIN S.variables THEN Failed(S)
    ELSE
    LET v1 == S.variables[arg1]
        dirty == v1.dirty
        v == [NewVariable EXCEPT
                 !.type = type, !.size = v1.size, !.stmt = stmt,
                 !.dep = <<arg1, 0, 0>>,
                 !.tsize = IF dirty THEN 2 ELSE 1 + v1.tsize]
    IN  AppendOperands(IF dirty THEN jit_eval(S) ELSE S, v)

\* std::max over the operand sizes
ResultSize(sizes) == CHOOSE m \in sizes : \A n \in sizes : n <= m

\* the shape test: some operand is neither scalar nor of the result size
Incompatible(sizes, size) == \E n \in sizes : n # 1 /\ n # size

\* faulty variant, for comparison: every two-operand append evaluates
\* the pending work first, dirty operand or not
jit_trace_append_2_AlwaysEval(S, type, stmt, arg1, arg2) ==
    IF S.active_stream = NoStream THEN Raise(S, StreamError)
    ELSE IF arg1 = 0 \/ arg2 = 0 THEN Raise(S, NullOperandError)
    ELSE IF {arg1, arg2} \ DOMAIN S.variables # {} THEN Failed(S)
    ELSE
    LET v1 == S.variables[arg1]
        v2 == S.variables[arg2]
        size == ResultSize({v1.size, v2.size})
        v == [NewVariable EXCEPT
                 !.type = type, !.size = size, !.stmt = stmt,
                 !.dep = <<arg1, arg2, 0>>, !.tsize = 3]
    IN  IF Incompatible({v1.size, v2.size}, size) THEN Raise(S, ShapeError)
        ELSE AppendOperands(jit_eval(S), v)

\* faulty variant, for comparison: the operands are checked before the
\* stream
jit_trace_append_2_StreamCheckLast(S, type, stmt, arg1, arg2) ==
    IF arg1 = 0 \/ arg2 = 0 THEN Raise(S, NullOperandError)
    ELSE IF {arg1, arg2} \ DOMAIN S.variables # {} THEN Failed(S)
    ELSE IF Incompatible({S.variables[arg1].size, S.variables[arg2].size},
                         ResultSize({S.variables[arg1].size,
                                     S.variables[arg2].size}))
    THEN Raise(S, ShapeError)
    ELSE IF S.active_stream = NoStream THEN Raise(S, StreamError)
    ELSE
    LET v1 == S.variables[arg1]
        v2 == S.variables[arg2]
        dirty == v1.dirty \/ v2.dirty
        v == [NewVariable EXCEPT
                 !.type = type, !.size = ResultSize({v1.size, v2.size}),
                 !.stmt = stmt, !.dep = <<arg1, arg2, 0>>,
                 !.tsize = IF dirty THEN 3 ELSE 1 + v1.tsize + v2.tsize]
    IN  AppendOperands(IF dirty THEN jit_eval(S) ELSE S, v)

\* jit_trace_append(type, stmt, arg1, arg2)
jit_trace_append_2(S, type, stmt, arg1, arg2) ==
    IF S.active_stream = NoStream THEN Raise(S, StreamError)
    ELSE IF arg1 = 0 \/ arg2 = 0 THEN Raise(S, NullOperandError)
    ELSE IF {arg1, arg2} \ DOMAIN S.variables # {} THEN Failed(S)
    ELSE
    LET v1 == S.variables[arg1]
        v2 == S.variables[arg2]
        size == ResultSize({v1.size, v2.size})
        dirty == v1.dirty \/ v2.dirty
        v == [NewVariable EXCEPT
                 !.type = type, !.size = size, !.stmt = stmt,
                 !.dep = <<arg1, arg2, 0>>,
                 !.tsize = IF dirty THEN 3 ELSE 1 + v1.tsize + v2.tsize]
    IN  IF Incompatible({v1.size, v2.size}, size) THEN Raise(S, ShapeError)
        ELSE AppendOperands(IF dirty THEN jit_eval(S) ELSE S, v)

\* strstr(stmt, "st.global") || strstr(stmt, "atom.global.add")
IsScatter(stmt) == stmt = ScatterStmt

\* faulty variant, for comparison: the operand ids are not compared with 0
\* before they are looked up
jit_trace_append_3_NullUnchecked(S, type, stmt, arg1, arg2, arg3, sgo) ==
    IF S.active_stream = NoStream THEN Raise(S, StreamError)
    ELSE IF {arg1, arg2, arg3} \ DOMAIN S.variables # {} THEN Failed(S)
    ELSE
    LET v1 == S.variables[arg1]
        v2 == S.variables[arg2]
        v3 == S.variables[arg3]
        size == ResultSize({v1.size, v2.size, v3.size})
        dirty == v1.dirty \/ v2.dirty \/ v3.dirty
        v == [NewVariable EXCEPT
                 !.type = type, !.size = size, !.stmt = stmt,
                 !.dep = <<arg1, arg2, arg3>>,
                 !.extra_dep = IF IsScatter(stmt) THEN sgo ELSE 0,
                 !.tsize = IF dirty THEN 4
                           ELSE 1 + v1.tsize + v2.tsize + v3.tsize]
    IN  IF Incompatible({v1.size, v2.size, v3.size}, size)
        THEN Raise(S, ShapeError)
        ELSE AppendOperands(IF dirty THEN jit_eval(S) ELSE S, v)

\* jit_trace_append(type, stmt, arg1, arg2, arg3); sgo is
\* state.scatter_gather_operand
jit_trace_append_3(S, type, stmt, arg1, arg2, arg3, sgo) ==
    IF S.active_stream = NoStream THEN Raise(S, StreamError)
    ELSE IF arg1 = 0 \/ arg2 = 0 \/ arg3 = 0
    THEN Raise(S, NullOperandError)
    ELSE IF {arg1, arg2, arg3} \ DOMAIN S.variables # {} THEN Failed(S)
    ELSE
    LET v1 == S.variables[arg1]
        v2 == S.variables[arg2]
        v3 == S.variables[arg3]
        size == ResultSize({v1.size, v2.size, v3.size})
        dirty == v1.dirty \/ v2.dirty \/ v3.dirty
        v == [NewVariable EXCEPT
                 !.type = type, !.size = size, !.stmt = stmt,
                 !.dep = <<arg1, arg2, arg3>>,
                 !.extra_dep = IF IsScatter(stmt) THEN sgo ELSE 0,
                 !.tsize = IF dirty THEN 4
                           ELSE 1 + v1.tsize + v2.tsize + v3.tsize]
    IN  IF Incompatible({v1.size, v2.size, v3.size}, size)
        THEN Raise(S, ShapeError)
        ELSE AppendOperands(IF dirty THEN jit_eval(S) ELSE S, v)

(***************************************************************************)
(* Resizing, registration, flags.                                          *)
(***************************************************************************)
\* the copy made by jit_var_set_size: R is the appended mov node, which
\* gets the requested size; the reference to the scalar is given up
ResizeCopy(R, index, size) ==
    IF R.result # "ok" THEN R
    ELSE Checked(jit_dec_ref_ext(
                     [R.S EXCEPT !.variables[R.idx].size = size], index),
                 R.idx)

\* faulty variant, for comparison: a resize that must be rejected is done
\* in place
jit_var_set_size_NeverRejects(S, index, size, copy) ==
    IF index \notin DOMAIN S.variables THEN Failed(S)
    ELSE
    LET var == S.variables[index]
    IN  IF var.size = size THEN Ok(S, index)
        ELSE IF (var.data # NullPtr \/ var.ref_count_int > 0)
                /\ var.size = 1 /\ copy
        THEN ResizeCopy(jit_trace_append_1(S, var.type, MovStmt, index),
                        index, size)
        ELSE Ok([S EXCEPT !.variables[index].size = size], index)

\* jit_var_set_size(index, size, copy)
jit_var_set_size(S, index, size, copy) ==
    IF index \notin DOMAIN S.variables THEN Failed(S)
    ELSE
    LET var == S.variables[index]
    IN  IF var.size = size THEN Ok(S, index)
        ELSE IF var.data # NullPtr \/ var.ref_count_int > 0
        THEN IF var.size = 1 /\ copy
             THEN ResizeCopy(jit_trace_append_1(S, var.type, MovStmt, index),
                             index, size)
             ELSE Raise(S, ResizeError)
        ELSE Ok([S EXCEPT !.variables[index].size = size], index)

\* jit_var_register(type, ptr, size, free)
jit_var_register(S, type, ptr, size, free, strdup_null) ==
    IF size = 0 THEN Raise(S, RegisterError)
    ELSE
    LET v == [NewVariable EXCEPT
                 !.type = type, !.data = ptr, !.size = size,
                 !.free_variable = free, !.tsize = 1]
        R == jit_trace_append_var(S, v, strdup_null)
    IN  IF R.result # "ok" THEN R
        ELSE Ok(jit_inc_ref_ext_var(R.S, R.idx), R.idx)

\* jit_var_register_ptr(ptr)
jit_var_register_ptr(S, ptr, strdup_null) ==
    IF ptr \in DOMAIN S.variable_from_ptr
    THEN LET idx == S.variable_from_ptr[ptr]
             S1 == jit_inc_ref_ext(S, idx)
         IN  IF S1.fail THEN Failed(S1) ELSE Ok(S1, idx)
    ELSE
    LET v == [NewVariable EXCEPT
                 !.type = PointerType, !.data = ptr, !.size = 1,
                 !.tsize = 0, !.free_variable = FALSE,
                 !.direct_pointer = TRUE]
        R == jit_trace_append_var(S, v, strdup_null)
    IN  IF R.result # "ok" THEN R
        ELSE Ok([jit_inc_ref_ext_var(R.S, R.idx) EXCEPT
                    !.variable_from_ptr = Put(@, ptr, R.idx)], R.idx)

\* the allocation a migration moves ptr to
MigratedPtr(ptr, idx) == IF ptr = 200 + idx THEN 300 + idx ELSE 200 + idx

\* jit_malloc_migrate(ptr, type): the input pointer when the allocation
\* already has the requested flavor (moves = FALSE); otherwise a new
\* allocation, and the old one is released with jit_free
jit_malloc_migrate(S, ptr, idx, moves) ==
    IF moves THEN [S |-> jit_free(S, ptr), ptr |-> MigratedPtr(ptr, idx)]
    ELSE [S |-> S, ptr |-> ptr]

\* the state in which jit_var_migrate reads v->data: after an evaluation
\* when the variable is unevaluated or dirty
MigrateOperand(S, idx) ==
    IF S.variables[idx].data = NullPtr \/ S.variables[idx].dirty
    THEN jit_eval(S) ELSE S

\* the call of jit_malloc_migrate is noted with the pointer it gets and
\* the dirty flag of the variable the pointer belongs to
NoteMigrate(S, idx) ==
    [S EXCEPT !.migrated = Append(@, [ptr |-> S.variables[idx].data,
                                      dirty |-> S.variables[idx].dirty])]

\* jit_var_migrate(idx, type)
jit_var_migrate(S, idx, moves) ==
    IF idx = 0 THEN Ok(S, 0)
    ELSE IF idx \notin DOMAIN S.variables THEN Failed(S)
    ELSE
    LET S1 == MigrateOperand(S, idx)
    IN  IF S1.fail \/ idx \notin DOMAIN S1.variables THEN Failed(S1)
        ELSE LET M == jit_malloc_migrate(NoteMigrate(S1, idx),
                                         S1.variables[idx].data, idx, moves)
             IN  Ok([M.S EXCEPT !.variables[idx].data = M.ptr], 0)

\* jit_var_mark_dirty(index)
jit_var_mark_dirty(S, index) ==
    IF index \notin DOMAIN S.variables THEN Failed(S)
    ELSE Ok([S EXCEPT !.variables[index].dirty = TRUE], 0)

\* the host's jit_inc_ref_ext(index) and jit_dec_ref_ext(index)
HostIncRef(S, index) == Checked(jit_inc_ref_ext(S, index), 0)

HostDecRef(S, index) == Checked(jit_dec_ref_ext(S, index), 0)

\* jit_device_set(device, stream): select the stream stored under the key
\* (device, stream), creating it when absent.  With the CUDA backend a
\* device below -1 passes the range test and state.devices[device] is read
\* out of bounds; oob is what that read leads to
jit_device_set(S, device, stream, oob) ==
    LET key == <<device, stream>>
    IN  IF key \in DOMAIN S.todo
        THEN Ok([S EXCEPT !.active_stream = key], 0)
        ELSE IF device # HostDevice
                /\ (~S.has_cuda \/ device >= S.devices)
        THEN Raise(S, DeviceError)
        ELSE IF S.has_cuda /\ device < HostDevice /\ oob = "crash"
        THEN Failed(S)
        ELSE Ok([S EXCEPT !.todo = Put(@, key, {}),
                          !.active_stream = key], 0)

\* jit_init(llvm, cuda): llvm_found and cuda_found are the results of
\* jit_llvm_init() and jit_cuda_init(), found the number of usable CUDA
\* devices
jit_init(S, llvm, cuda, llvm_found, cuda_found, found) ==
    IF S.has_llvm \/ S.has_cuda \/ (~llvm /\ ~cuda) THEN Ok(S, 0)
    ELSE Ok([S EXCEPT !.has_llvm = llvm /\ llvm_found,
                      !.has_cuda = cuda /\ cuda_found,
                      !.devices = IF cuda /\ cuda_found
                                  THEN @ + found ELSE @,
                      !.variable_index = 1], 0)

\* S with event e appended to the record of what the call did
Logged(S, e) == [S EXCEPT !.log = Append(@, e)]

\* the end of jit_shutdown: registry, allocator and device contexts are
\* released, the backends unloaded unless light is set, the flags reset
ShutdownTail(S, light) ==
    LET S1 == Logged(Logged(S, <<"registry">>), <<"malloc">>)
        S2 == IF S.has_cuda
              THEN [Logged(S1, <<"contexts">>) EXCEPT !.devices = 0]
              ELSE S1
        S3 == IF light = 0 THEN Logged(S2, <<"unload">>) ELSE S2
    IN  Ok([S3 EXCEPT !.has_cuda = FALSE, !.has_llvm = FALSE], 0)

\* the leak checks of jit_shutdown: with an empty variable table, an entry
\* left in the CSE table or in the pointer table is fatal
ShutdownChecks(S, light) ==
    IF DOMAIN S.variables = {} /\ DOMAIN S.variable_from_key # {}
    THEN Failed(S)
    ELSE IF DOMAIN S.variables = {} /\ DOMAIN S.variable_from_ptr # {}
    THEN Failed(S)
    ELSE ShutdownTail(S, light)

\* faulty variant, for comparison: the stream is destroyed first
ReleaseStream_DestroyFirst(S, key, tbb) ==
    LET S1 == Logged(Logged([S EXCEPT !.active_stream = key],
                            <<"select", key>>), <<"destroy", key>>)
    IN  IF key[1] # HostDevice \/ tbb
        THEN Logged(Logged(S1, <<"flush", key>>), <<"sync", key>>)
        ELSE S1

\* the release of one stream: a CUDA stream is flushed and synchronized
\* before it is destroyed; a host stream is flushed and its thread pool
\* shut down when the build has one (tbb), and deleted
ReleaseStream(S, key, tbb) ==
    LET S1 == Logged([S EXCEPT !.active_stream = key], <<"select", key>>)
        S2 == IF key[1] # HostDevice \/ tbb
              THEN Logged(Logged(S1, <<"flush", key>>), <<"sync", key>>)
              ELSE S1
    IN  Logged(S2, <<"destroy", key>>)

RECURSIVE ReleaseStreams(_, _, _)
ReleaseStreams(S, keys, tbb) ==
    IF keys = {} THEN S
    ELSE LET key == CHOOSE k \in keys : TRUE
         IN  ReleaseStreams(ReleaseStream(S, key, tbb), keys \ {key}, tbb)

\* the first part of jit_shutdown: the streams are released with their
\* pending sets and the calling thread's active stream is reset, then the
\* kernel cache is released
ShutdownStreams(S, tbb) ==
    Logged(IF DOMAIN S.todo # {}
           THEN [ReleaseStreams(S, DOMAIN S.todo, tbb) EXCEPT
                    !.todo = <<>>, !.active_stream = NoStream]
           ELSE S,
           <<"kernels">>)

\* jit_shutdown(light); tbb tells whether the build has the thread pool
\* (ENOKI_TBB).  Variables that are still referenced stay in the table
\* (they are reported as leaks)
jit_shutdown(S, light, tbb) ==
    ShutdownChecks(ShutdownStreams(S, tbb), light)

(***************************************************************************)
(* The host program: one thread issuing API calls.                         *)
(***************************************************************************)
\* the counters stay within the bounds of the model
WithinBounds(S) ==
    /\ S.variable_index <= MaxIndex + 1
    /\ \A i \in DOMAIN S.variables :
          /\ S.variables[i].ref_count_ext <= MaxRef
          /\ S.variables[i].ref_count_int <= MaxRef

\* the host holds a reference to id
Holds(id) == id \in DOMAIN held /\ held[id] > 0

\* the references the host holds after taking and giving back one
Take(h, id) == IF id = 0 THEN h
               ELSE IF id \in DOMAIN h THEN [h EXCEPT ![id] = @ + 1]
               ELSE Put(h, id, 1)
Give(h, id) == IF id \in DOMAIN h /\ h[id] > 0
               THEN [h EXCEPT ![id] = @ - 1] ELSE h

\* a call ended with outcome R: jit_fail ends the process and with it
\* its state; anything else installs the state the call left. h is what the
\* host holds after a call that returned normally
InstallFor(R, h, other) ==
    /\ ~terminated
    /\ active_stream2' = IF R.S.fail THEN NoStream ELSE other
    /\ IF R.S.fail
       THEN /\ terminated' = TRUE
            /\ variables' = <<>>
            /\ variable_from_key' = <<>>
            /\ variable_from_ptr' = <<>>
            /\ variable_index' = 0
            /\ todo' = <<>>
            /\ active_stream' = NoStream
            /\ has_llvm' = FALSE
            /\ has_cuda' = FALSE
            /\ devices' = 0
            /\ held' = <<>>
       ELSE /\ WithinBounds(R.S)
            /\ terminated' = FALSE
            /\ variables' = R.S.variables
            /\ variable_from_key' = R.S.variable_from_key
            /\ variable_from_ptr' = R.S.variable_from_ptr
            /\ variable_index' = R.S.variable_index
            /\ todo' = R.S.todo
            /\ active_stream' = R.S.active_stream
            /\ has_llvm' = R.S.has_llvm
            /\ has_cuda' = R.S.has_cuda
            /\ devices' = R.S.devices
            /\ held' = IF R.result = "ok" THEN h ELSE held

\* the value of a thread's active_stream that points to a Stream which
\* was deleted
Dangling == <<"deleted">>

\* a thread-local active_stream after another thread's call left state S:
\* the pointer is what it was, the Stream it points to may be gone
Surviving(S, stream) ==
    IF stream = NoStream \/ stream \in DOMAIN S.todo THEN stream
    ELSE Dangling

\* a call of thread 1 ended with outcome R
Install(R, h) == InstallFor(R, h, Surviving(R.S, active_stream2))

\* an API call made with the lock free: the lock is held for the whole
\* call and released when it returns
Commit(R, h) ==
    /\ mutex = 0
    /\ Install(R, h)
    /\ UNCHANGED <<mutex, pc>>

\* a call that hands the host a reference to the id it returns
CommitTake(R) == Commit(R, Take(held, R.idx))

Init ==
    /\ variables = <<>>
    /\ variable_from_key = <<>>
    /\ variable_from_ptr = <<>>
    /\ variable_index = 1
    /\ todo = <<>>
    /\ active_stream = NoStream
    /\ active_stream2 = NoStream
    /\ has_llvm = TRUE
    /\ has_cuda = FALSE
    /\ devices = 0
    /\ mutex = 0
    /\ pc = "idle"
    /\ terminated = FALSE
    /\ held = <<>>

Args == 0..MaxIndex
\* operand triples of the three-operand form, listed in ascending order
Args3 == {abc \in Args \X Args \X Args : abc[1] <= abc[2] /\ abc[2] <= abc[3]}

DeviceSet(device, stream) ==
    /\ \E oob \in {"crash", "proceed"} :
          Commit(jit_device_set(State, device, stream, oob), held)

TraceAppend0(type, stmt) ==
    /\ CommitTake(jit_trace_append_0(State, type, stmt))

TraceAppend1(type, stmt, arg1) ==
    /\ CommitTake(jit_trace_append_1(State, type, stmt, arg1))

TraceAppend2(type, stmt, arg1, arg2) ==
    /\ CommitTake(jit_trace_append_2(State, type, stmt, arg1, arg2))

\* the buffer the host has named as the target of the next scatter
\* (state.scatter_gather_operand; its setter is not part of the sources):
\* 0 or a materialized variable
ScatterTargets ==
    {0} \cup {i \in DOMAIN variables : variables[i].data # NullPtr}

TraceAppend3(type, stmt, arg1, arg2, arg3, sgo) ==
    /\ CommitTake(jit_trace_append_3(State, type, stmt,
                                     arg1, arg2, arg3, sgo))

\* set_size hands the host's reference to index over to the id it returns
CommitSetSize(R, index) ==
    Commit(R, IF R.idx = index THEN held ELSE Take(Give(held, index), R.idx))

SetSize(index, size, copy) ==
    /\ Holds(index) \/ index \notin DOMAIN variables
    /\ CommitSetSize(jit_var_set_size(State, index, size, copy), index)

Register(type, ptr, size, free, strdup_null) ==
    /\ CommitTake(jit_var_register(State, type, ptr, size, free, strdup_null))

RegisterPtr(ptr, strdup_null) ==
    /\ CommitTake(jit_var_register_ptr(State, ptr, strdup_null))

\* the host marks a buffer it has scattered into (or passes an unknown id)
MarkDirty(index) ==
    /\ IF index \in DOMAIN variables
       THEN variables[index].data # NullPtr ELSE TRUE
    /\ Commit(jit_var_mark_dirty(State, index), held)

IncRefExt(index) ==
    /\ Commit(HostIncRef(State, index), Take(held, index))

\* the host gives back a reference it holds, or calls dec_ref_ext on an id
\* that is unknown or has no external reference
DecRefExt(index) ==
    /\ IF index \in DOMAIN variables
       THEN Holds(index) \/ variables[index].ref_count_ext = 0
       ELSE TRUE
    /\ Commit(HostDecRef(State, index), Give(held, index))

Eval ==
    /\ Commit(Checked(jit_eval(State), 0), held)

\* the host migrates a variable it holds
Migrate(index, moves) ==
    /\ index = 0 \/ Holds(index)
    /\ Commit(jit_var_migrate(State, index, moves), held)

\* the same, where a buffer is moved at most once
MigrateOnce(index, moves) ==
    /\ (moves /\ index \in DOMAIN variables) => variables[index].data < 200
    /\ Migrate(index, moves)

\* the address of a buffer the host hands over to the compiler, and of one
\* it keeps for itself
OwnedPtr == 1
BorrowedPtr == 2

\* the host maps a buffer: one it hands over (free = 1), which it does
\* once per allocation, or one it keeps (free = 0)
Map(type, ptr, size, free, strdup_null) ==
    /\ free = (ptr = OwnedPtr)
    /\ \A i \in DOMAIN variables : free => variables[i].data # ptr
    /\ Register(type, ptr, size, free, strdup_null)

Shutdown ==
    /\ \E light \in {0, 1}, tbb \in BOOLEAN :
          Commit(jit_shutdown(State, light, tbb), held)

JitInit(llvm, cuda, llvm_found, cuda_found, found) ==
    /\ Commit(jit_init(State, llvm, cuda, llvm_found, cuda_found, found),
              held)

(***************************************************************************)
(* Blocking calls and the lock.  Thread 1 is the thread whose             *)
(* active_stream the model holds; every API call runs with state.mutex     *)
(* held, and an unlock_guard releases it for the time of a driver call.    *)
(***************************************************************************)
Data == <<variables, variable_from_key, variable_from_ptr, variable_index,
          todo, active_stream, active_stream2, has_llvm, has_cuda, devices,
          terminated, held>>

\* the holder of the lock once an unlock_guard was constructed
AfterUnlock(m) == 0

\* thread 1 enters jit_sync_stream, jit_sync_device or jit_shutdown
EnterCall(op) ==
    /\ ~terminated /\ mutex = 0 /\ pc = "idle"
    /\ mutex' = 1
    /\ pc' = op
    /\ UNCHANGED Data

\* jit_sync_stream / jit_sync_device reach the driver call: on a CUDA
\* stream the lock is released while waiting; on the host (a build
\* without the thread pool) there is nothing to wait for
SyncWait ==
    /\ pc \in {"sync_stream", "sync_device"}
    /\ IF active_stream = NoStream
       THEN /\ Install(Failed(State), held)
            /\ mutex' = 0
            /\ pc' = "idle"
       ELSE /\ mutex' = IF active_stream[1] # HostDevice
                        THEN AfterUnlock(mutex) ELSE mutex
            /\ pc' = IF active_stream[1] = HostDevice THEN "return"
                     ELSE IF pc = "sync_stream" THEN "sync_stream_wait"
                     ELSE "sync_device_wait"
            /\ UNCHANGED Data

\* the driver call returned: the unlock_guard takes the lock again
SyncWake ==
    /\ pc \in {"sync_stream_wait", "sync_device_wait"}
    /\ mutex = 0
    /\ mutex' = 1
    /\ pc' = "return"
    /\ UNCHANGED Data

\* the call returns and the lock is released
Return ==
    /\ pc = "return"
    /\ mutex' = 0
    /\ pc' = "idle"
    /\ UNCHANGED Data

\* jit_shutdown reaches cuStreamSynchronize of a CUDA stream: it waits
\* without an unlock_guard
ShutdownWait ==
    /\ pc = "shutdown"
    /\ pc' = IF \E key \in DOMAIN todo : key[1] # HostDevice
             THEN "shutdown_wait" ELSE "shutdown_tail"
    /\ UNCHANGED <<mutex, Data>>

\* the rest of jit_shutdown, and its return
ShutdownFinish ==
    /\ pc \in {"shutdown_wait", "shutdown_tail"}
    /\ \E light \in {0, 1} : Install(jit_shutdown(State, light, FALSE), held)
    /\ mutex' = 0
    /\ pc' = "idle"

\* what a call of thread 2 leaves, seen from thread 1: thread 1's
\* active_stream is its own
OfThread2(R) == [R EXCEPT !.S.active_stream = active_stream]

\* thread 2 selects its host stream and appends a node
Thread2Append(type, stmt) ==
    /\ CommitTake(OfThread2(jit_trace_append_0(
           jit_device_set([State EXCEPT !.active_stream = NoStream],
                          HostDevice, 1, "crash").S, type, stmt)))

\* the state as thread 2 sees it: active_stream is thread 2's own.  A
\* deleted Stream is read as the memory it left behind, an empty pending
\* set
OfState2 ==
    [State EXCEPT !.active_stream = active_stream2,
                  !.todo = IF active_stream2 = Dangling
                           THEN Put(@, Dangling, {}) ELSE @]

\* what a call of thread 2 leaves in the shared state: thread 1's
\* active_stream is its own, and what was written to a deleted Stream is
\* lost
SharedAfter2(R) ==
    [R EXCEPT !.S.active_stream = Surviving(R.S, active_stream),
              !.S.todo = Erase(@, Dangling)]

\* a call of thread 2 ended with outcome R
Commit2(R, h) ==
    /\ mutex = 0
    /\ InstallFor(SharedAfter2(R), h, R.S.active_stream)
    /\ UNCHANGED <<mutex, pc>>

\* thread 2 selects a stream of the host
Thread2DeviceSet(stream) ==
    /\ Commit2(jit_device_set(OfState2, HostDevice, stream, "crash"), held)

\* thread 2 appends a node on its active stream; use_after_free is what
\* the access to a deleted Stream does in this run: "crash", or "proceed"
\* on the memory left behind
Thread2Use(type, stmt, use_after_free) ==
    /\ (active_stream2 = Dangling) = (use_after_free # "none")
    /\ IF use_after_free = "crash"
       THEN Commit2(Failed(OfState2), held)
       ELSE Commit2(jit_trace_append_0(OfState2, type, stmt),
                    Take(held, jit_trace_append_0(OfState2, type, stmt).idx))

\* jitc_shutdown called by thread 1
Thread1Shutdown ==
    /\ Shutdown

\* calls of thread 1 that do not block
Thread1Init ==
    /\ pc = "idle"
    /\ JitInit(FALSE, TRUE, FALSE, TRUE, MaxDevice)

Thread1DeviceSet(device) ==
    /\ pc = "idle"
    /\ DeviceSet(device, 0)

(***************************************************************************)
(* Specifications.  The variable graph is explored in several views that   *)
(* share the operations above and differ in the calls the host issues.     *)
(***************************************************************************)
\* building and releasing the graph on one stream
Next ==
    \/ \E d \in {HostDevice, 0} : DeviceSet(d, 0)
    \/ \E t \in Types, s \in Stmts : TraceAppend0(t, s)
    \/ \E t \in Types, a \in Args : TraceAppend1(t, AddStmt, a)
    \/ \E t \in Types, a, b \in Args : TraceAppend2(t, AddStmt, a, b)
    \/ \E t \in Types, abc \in Args3 :
          TraceAppend3(t, ScatterStmt, abc[1], abc[2], abc[3], 0)
    \/ \E i \in Ids, n \in Sizes, c \in BOOLEAN : SetSize(i, n, c)
    \/ \E i \in Args : IncRefExt(i)
    \/ \E i \in Args : DecRefExt(i)

Spec == Init /\ [][Next]_vars

\* the same graph spread over several streams
NextStreams ==
    \/ \E s \in 0..(MaxStream - 1) : DeviceSet(HostDevice, s)
    \/ \E t \in Types, s \in Stmts : TraceAppend0(t, s)
    \/ \E t \in Types, a \in Args : TraceAppend1(t, AddStmt, a)
    \/ \E i \in Args : IncRefExt(i)
    \/ \E i \in Args : DecRefExt(i)

SpecStreams == Init /\ [][NextStreams]_vars

\* registered buffers, pointer literals, scatters, dirty reads, evaluation
NextEval ==
    \/ DeviceSet(HostDevice, 0)
    \/ \E t \in Types, p \in HostPtrs, n \in {1, MaxSize},
          u \in {"crash", "null"} : Register(t, p, n, FALSE, u)
    \/ \E p \in HostPtrs, u \in {"crash", "null"} : RegisterPtr(p, u)
    \/ \E t \in Types, a \in Args : TraceAppend1(t, AddStmt, a)
    \* a scatter: target pointer, index and value operands
    \/ \E t \in Types, a, b \in Ids, g \in ScatterTargets :
          TraceAppend3(t, ScatterStmt, a, a, b, g)
    \/ \E i \in Ids : MarkDirty(i)
    \/ \E i \in Args : DecRefExt(i)
    \/ \E i \in Ids : SetSize(i, MaxSize, TRUE)
    \/ Eval

SpecEval == Init /\ [][NextEval]_vars

\* reads of buffers that were marked dirty, and resizes of buffers
NextDirty ==
    \/ DeviceSet(HostDevice, 0)
    \/ \E t \in Types, p \in HostPtrs, n \in {1, MaxSize},
          u \in {"crash", "null"} : Register(t, p, n, FALSE, u)
    \/ \E t \in Types, a \in Args : TraceAppend1(t, AddStmt, a)
    \/ \E t \in Types, a, b \in Ids : TraceAppend2(t, AddStmt, a, b)
    \/ \E i \in Ids : MarkDirty(i)
    \/ \E i \in Args : DecRefExt(i)
    \/ \E i \in Ids : SetSize(i, MaxSize, TRUE)
    \/ Eval

SpecDirty == Init /\ [][NextDirty]_vars

\* a program that shuts the compiler down while it still holds variables,
\* and goes on issuing calls
NextLifecycle ==
    \/ DeviceSet(HostDevice, 0)
    \/ \E t \in Types, s \in Stmts : TraceAppend0(t, s)
    \/ \E t \in Types, a, b \in Args : TraceAppend2(t, AddStmt, a, b)
    \/ \E i \in Ids, n \in Sizes : SetSize(i, n, FALSE)
    \/ \E i \in Args : DecRefExt(i)
    \/ Shutdown

SpecLifecycle == Init /\ [][NextLifecycle]_vars

\* a program that initializes and shuts down the compiler repeatedly, with
\* either backend found or not, while it builds and releases variables
NextInit ==
    \/ \E llvm, cuda, llvm_found, cuda_found \in BOOLEAN,
          found \in 0..MaxDevice :
          JitInit(llvm, cuda, llvm_found, cuda_found, found)
    \/ Shutdown
    \/ DeviceSet(HostDevice, 0)
    \/ \E t \in Types : TraceAppend0(t, AddStmt)
    \/ \E t \in Types, a \in Args : TraceAppend1(t, AddStmt, a)
    \/ \E i \in Args : DecRefExt(i)

SpecInit == Init /\ [][NextInit]_vars

\* the device ids the host passes to device_set: below the host device,
\* the host device, and CUDA devices up to one past the largest
Devices == (HostDevice - 1)..MaxDevice

\* a program that selects devices and streams, with and without the CUDA
\* backend
NextDevices ==
    \/ \E llvm, cuda, llvm_found, cuda_found \in BOOLEAN,
          found \in 0..MaxDevice :
          JitInit(llvm, cuda, llvm_found, cuda_found, found)
    \/ Shutdown
    \/ \E d \in Devices, st \in 0..(MaxStream - 1) : DeviceSet(d, st)

SpecDevices == Init /\ [][NextDevices]_vars

\* mapped buffers, owned and borrowed, their evaluation and migration
NextOwner ==
    \/ DeviceSet(HostDevice, 0)
    \/ \E t \in Types, p \in {OwnedPtr, BorrowedPtr}, n \in {1, MaxSize},
          u \in {"crash", "null"} : Map(t, p, n, p = OwnedPtr, u)
    \/ \E t \in Types, a \in Ids : TraceAppend1(t, AddStmt, a)
    \/ \E i \in Ids : DecRefExt(i)
    \/ \E i \in Ids, moves \in BOOLEAN : Migrate(i, moves)
    \/ Eval

SpecOwner == Init /\ [][NextOwner]_vars

\* variables traced on two streams of the host, marked dirty, migrated
NextMigrate ==
    \/ \E st \in 0..(MaxStream - 1) : DeviceSet(HostDevice, st)
    \/ \E t \in Types, s \in Stmts : TraceAppend0(t, s)
    \/ \E i \in Ids : MarkDirty(i)
    \/ \E i \in Ids : DecRefExt(i)
    \/ \E i \in Args, moves \in BOOLEAN : MigrateOnce(i, moves)

SpecMigrate == Init /\ [][NextMigrate]_vars

\* two threads: thread 1 synchronizes and shuts down, thread 2 appends
NextLock ==
    \/ Thread1Init
    \/ \E d \in {HostDevice, 0} : Thread1DeviceSet(d)
    \/ \E op \in {"sync_stream", "sync_device", "shutdown"} : EnterCall(op)
    \/ SyncWait
    \/ SyncWake
    \/ Return
    \/ ShutdownWait
    \/ ShutdownFinish
    \/ \E t \in Types, s \in Stmts : Thread2Append(t, s)

SpecLock == Init /\ [][NextLock]_vars

\* two threads, each with its own stream of the host; thread 1 shuts the
\* compiler down and initializes it again
NextThreads ==
    \/ DeviceSet(HostDevice, 0)
    \/ \E st \in 0..(MaxStream - 1) : Thread2DeviceSet(st)
    \/ \E t \in Types, s \in Stmts : TraceAppend0(t, s)
    \/ \E t \in Types, s \in Stmts,
          u \in {"none", "crash", "proceed"} : Thread2Use(t, s, u)
    \/ \E i \in Ids : DecRefExt(i)
    \/ Thread1Shutdown
    \/ JitInit(TRUE, FALSE, TRUE, FALSE, 0)

SpecThreads == Init /\ [][NextThreads]_vars

(***************************************************************************)
(* Properties.  A property of a call is stated of every call the host can  *)
(* issue in a reachable state: R is the outcome of that call.              *)
(***************************************************************************)
Live == DOMAIN variables

\* the external reference count of id in state S, 0 when id is not live
ExtOf(S, id) ==
    IF id \in DOMAIN S.variables THEN S.variables[id].ref_count_ext ELSE 0

\* the size of the largest of the operands deps (0 entries are absent)
MaxOperandSize(deps) ==
    LET sizes == {variables[deps[k]].size : k \in {j \in 1..3 : deps[j] # 0}}
    IN  IF sizes = {} THEN 1
        ELSE CHOOSE m \in sizes : \A n \in sizes : n <= m

\* all operands of the request are live and their shapes are compatible
Compatible(deps) ==
    /\ \A k \in 1..3 : deps[k] # 0 => deps[k] \in Live
    /\ \A k \in 1..3 : deps[k] # 0 =>
          variables[deps[k]].size \in {1, MaxOperandSize(deps)}

\* P holds of every trace_append call (0 to 3 operands) of this state;
\* P(R, type, stmt, deps) receives the outcome and the request
AllAppends(P(_, _, _, _)) ==
    /\ \A t \in Types, s \in Stmts :
          P(jit_trace_append_0(State, t, s), t, s, NoDep)
    /\ \A t \in Types, s \in Stmts, a \in Args :
          P(jit_trace_append_1(State, t, s, a), t, s, <<a, 0, 0>>)
    /\ \A t \in Types, s \in Stmts, a, b \in Args :
          P(jit_trace_append_2(State, t, s, a, b), t, s, <<a, b, 0>>)
    /\ \A t \in Types, s \in Stmts, abc \in Args3, g \in ScatterTargets :
          P(jit_trace_append_3(State, t, s, abc[1], abc[2], abc[3], g),
            t, s, abc)

\* P holds of some trace_append call of this state
SomeAppend(P(_, _, _, _)) ==
    \/ \E t \in Types, s \in Stmts :
          P(jit_trace_append_0(State, t, s), t, s, NoDep)
    \/ \E t \in Types, s \in Stmts, a \in Args :
          P(jit_trace_append_1(State, t, s, a), t, s, <<a, 0, 0>>)
    \/ \E t \in Types, s \in Stmts, a, b \in Args :
          P(jit_trace_append_2(State, t, s, a, b), t, s, <<a, b, 0>>)
    \/ \E t \in Types, s \in Stmts, abc \in Args3, g \in ScatterTargets :
          P(jit_trace_append_3(State, t, s, abc[1], abc[2], abc[3], g),
            t, s, abc)

\* the append requests: <<number of operands, operands>>
Requests ==
    {<<0, NoDep>>} \cup {<<1, <<a, 0, 0>>>> : a \in Args}
    \cup {<<2, <<a, b, 0>>>> : a, b \in Args} \cup {<<3, abc>> : abc \in Args3}

\* the outcome of request q with type t, statement s and scatter target g
AppendCall(q, t, s, g) ==
    CASE q[1] = 0 -> jit_trace_append_0(State, t, s)
      [] q[1] = 1 -> jit_trace_append_1(State, t, s, q[2][1])
      [] q[1] = 2 -> jit_trace_append_2(State, t, s, q[2][1], q[2][2])
      [] q[1] = 3 -> jit_trace_append_3(State, t, s,
                                        q[2][1], q[2][2], q[2][3], g)

\* the call returned normally
Returned(R) == R.result = "ok" /\ ~R.S.fail

\* ---- C1 ----------------------------------------------------------------
C1_Post(R, t, s, deps) ==
    Returned(R) => ExtOf(R.S, R.idx) = ExtOf(State, R.idx) + 1

C1_Reused(R, t, s, deps) ==
    Returned(R) /\ R.idx \in Live /\ ExtOf(State, R.idx) >= 1
    /\ ExtOf(R.S, R.idx) = ExtOf(State, R.idx) + 1

Same(t, s, deps) ==
    {i \in Live :
        /\ variables[i].data = NullPtr
        /\ variables[i].type = t /\ variables[i].stmt = s
        /\ variables[i].dep = deps
        /\ variables[i].size = MaxOperandSize(deps)}

C2_Post(R, t, s, deps) ==
    (Returned(R) /\ Compatible(deps)) =>
        \A i \in Same(t, s, deps) :
            \* the node is still unevaluated when the table is consulted
            (i \in DOMAIN R.S.variables /\ R.S.variables[i].data = NullPtr)
            => /\ R.idx = i
               /\ DOMAIN R.S.variables = Live
               /\ R.S.variable_index = variable_index
               /\ ExtOf(R.S, i) = ExtOf(State, i) + 1

\* C2: an append with the type, statement, operands and size of a live
\* unevaluated node returns that node's id, creates no variable-table entry
\* and adds one to its ref_count_ext (1 becomes 2).
C2_CseDedup == AllAppends(C2_Post)

C2_Hit(R, t, s, deps) ==
    /\ Returned(R) /\ Compatible(deps)
    /\ \E i \in Same(t, s, deps) :
          /\ ExtOf(State, i) = 1 /\ R.idx = i /\ ExtOf(R.S, i) = 2
          /\ deps # NoDep

\* a state in which the second append of an expression with operands is
\* answered with the first one's id, now referenced twice
C2_Witness == SomeAppend(C2_Hit)

\* ---- C3 ----------------------------------------------------------------
\* the CSE table maps the current tuple of variable i to i
CseFindsItself(i) ==
    /\ VariableKey(variables[i]) \in DOMAIN variable_from_key
    /\ variable_from_key[VariableKey(variables[i])] = i

C3_HitMatches(R, t, s, deps) ==
    (Returned(R) /\ R.idx \in Live /\ Compatible(deps)) =>
        /\ R.S.variables[R.idx].type = t
        /\ R.S.variables[R.idx].stmt = s
        /\ R.S.variables[R.idx].dep = deps
        /\ R.S.variables[R.idx].size = MaxOperandSize(deps)

\* C3: for every live unevaluated variable a CSE lookup of its current
\* (type, stmt, deps, size) tuple returns its own id, and an append that
\* hits the CSE table returns a variable with the requested tuple.
C3_CseLookupReturnsSelf ==
    /\ \A i \in Live : variables[i].data = NullPtr => CseFindsItself(i)
    /\ AllAppends(C3_HitMatches)

\* ---- C4 ----------------------------------------------------------------
\* the dependency edges (v, k) that point to u
EdgesTo(u) ==
    {vk \in Live \X (1..3) : variables[vk[1]].dep[vk[2]] = u}

\* C4: the internal reference count of every live variable equals the
\* number of dependency edges that point to it.
C4_InternalRefsCountEdges ==
    \A u \in Live : variables[u].ref_count_int = Cardinality(EdgesTo(u))

\* ---- C5 ----------------------------------------------------------------
\* C5: every nonzero operand of a live variable is itself in the variable
\* table, whatever the order in which the host drops its references.
C5_NoDanglingDependency ==
    \A v \in Live : \A k \in 1..3 :
        variables[v].dep[k] # 0 => variables[v].dep[k] \in Live

\* a live node depends on an operand that the host no longer references
C5_Witness ==
    \E v \in Live : \E k \in 1..3 :
        /\ variables[v].dep[k] \in Live
        /\ variables[variables[v].dep[k]].ref_count_ext = 0
        /\ ~Holds(variables[v].dep[k])

\* ---- C6 ----------------------------------------------------------------
\* C6: every live variable has an external or an internal reference; a
\* variable whose last external reference is dropped while internal ones
\* remain stays in the table, and goes when the last internal one is dropped.
C6_FreedExactlyWhenUnreferenced ==
    /\ \A i \in Live :
          variables[i].ref_count_ext + variables[i].ref_count_int > 0
    /\ \A i \in Live :
          (variables[i].ref_count_ext = 1 /\ active_stream # NoStream) =>
             LET S == jit_dec_ref_ext(State, i)
             IN  (i \in DOMAIN S.variables) = (variables[i].ref_count_int > 0)
    /\ \A i \in Live :
          (variables[i].ref_count_ext = 0 /\ variables[i].ref_count_int > 0) =>
             LET S == jit_dec_ref_int(State, i)
             IN  (i \in DOMAIN S.variables) = (variables[i].ref_count_int > 1)

\* a variable without external references is kept alive by an internal one,
\* and the host still holds the node that depends on it
C6_Witness ==
    \E i \in Live :
        /\ variables[i].ref_count_ext = 0
        /\ variables[i].ref_count_int = 1
        /\ \E v \in Live : variables[v].dep[1] = i /\ Holds(v)

\* ---- C7 ----------------------------------------------------------------
\* C7: every id in the pending set of any stream, active or not, has
\* ref_count_ext > 0.
C7_PendingHaveExternalRef ==
    \A key \in DOMAIN todo : \A i \in todo[key] :
        i \in Live => variables[i].ref_count_ext > 0

\* ---- C8 ----------------------------------------------------------------
\* C8: once the host has given back every reference it was handed, the
\* variable table, the CSE table and the pointer-literal table are empty.
C8_BalancedUseLeavesNothing ==
    (\A i \in DOMAIN held : held[i] = 0) =>
        /\ variables = <<>>
        /\ variable_from_key = <<>>
        /\ variable_from_ptr = <<>>

\* ---- C9 ----------------------------------------------------------------
\* the state an operation leaves is the one it found, and nothing was
\* evaluated
Untouched(S) == S = State

C9_Post(R, t, s, deps) ==
    (deps[2] # 0 /\ \A k \in 1..3 : deps[k] # 0 => deps[k] \in Live) =>
        IF ~Compatible(deps)
        THEN active_stream # NoStream =>
                R.result = "raise" /\ Untouched(R.S)
        ELSE Returned(R) =>
                R.S.variables[R.idx].size = MaxOperandSize(deps)

\* C9: a 2- or 3-operand append yields a node whose size is the maximum of
\* its operands' sizes; an operand that is neither scalar nor of that size
\* makes the call raise, leaving variables, reference counts, the CSE table
\* and the pending sets as they were, with no evaluation.
C9_BroadcastPolicy == AllAppends(C9_Post)

\* ---- C10 ---------------------------------------------------------------
\* C10: every live variable with an operand has the size of its largest
\* operand, and each of its operands is scalar or of that size.
C10_SizeIsMaxOfOperands ==
    \A v \in Live :
        (variables[v].dep # NoDep
         /\ \A k \in 1..3 : variables[v].dep[k] # 0 =>
                               variables[v].dep[k] \in Live) =>
            /\ variables[v].size = MaxOperandSize(variables[v].dep)
            /\ Compatible(variables[v].dep)

\* ---- C11 ---------------------------------------------------------------
\* some operand of the request is dirty
AnyDirty(deps) ==
    \E k \in 1..3 : deps[k] \in Live /\ variables[deps[k]].dirty

\* the number of operand slots of the request that name id
Slots(deps, id) == Cardinality({k \in 1..3 : deps[k] = id})

\* the scatter targets that matter to request q
TargetsOf(q) == IF q[1] = 3 THEN ScatterTargets ELSE {0}

\* E is what the evaluation alone makes of the state the call found
C11_Post(R, E, s, deps) ==
    (AnyDirty(deps) /\ Returned(R)) =>
        /\ R.S.evals = 1
        \* the returned id entered the pending set after the evaluation
        /\ R.idx \in R.S.todo[active_stream]
        \* a node the call created was not part of the evaluation
        /\ R.idx \notin Live =>
              /\ R.S.variables[R.idx].data = NullPtr
              /\ R.S.variables[R.idx].stmt = s
              /\ VariableKey(R.S.variables[R.idx])
                    \in DOMAIN R.S.variable_from_key
        \* the operands were referenced after the evaluation, clean
        /\ \A k \in 1..3 : deps[k] # 0 =>
              /\ ~R.S.variables[deps[k]].dirty
              /\ R.S.variables[deps[k]].ref_count_int =
                    E.variables[deps[k]].ref_count_int
                       + Slots(deps, deps[k])

C11_DirtyAppend(R, t, s, deps) ==
    /\ AnyDirty(deps) /\ Returned(R) /\ R.idx \notin Live
    /\ R.S.evals = 1 /\ R.S.variables[R.idx].data = NullPtr

WithoutCounts(v) == [v EXCEPT !.ref_count_ext = 0, !.ref_count_int = 0]

\* state S differs from the current one at most in new variables, the CSE
\* table, reference counts and the pending set of the active stream
OnlyTraceChanged(S) ==
    /\ S.variable_from_ptr = variable_from_ptr
    /\ S.active_stream = active_stream
    /\ DOMAIN S.todo = DOMAIN todo
    /\ \A key \in DOMAIN todo :
          key # active_stream => S.todo[key] = todo[key]
    /\ \A i \in Live :
          /\ i \in DOMAIN S.variables
          /\ WithoutCounts(S.variables[i]) = WithoutCounts(variables[i])

C12_Post(R) ==
    /\ R.S.evals = 0
    /\ ~R.S.fail => OnlyTraceChanged(R.S)

IsCopyOf(R, index, size) ==
    /\ Returned(R) /\ R.idx # index
    /\ R.S.variables[R.idx].stmt = MovStmt
    /\ R.S.variables[R.idx].dep = <<index, 0, 0>>
    /\ R.S.variables[R.idx].size = size

\* C13 as stated, first half: a resize of a materialized scalar with
\* allow_copy set inserts a copy node depending on the variable and returns
\* its new id, different from the variable's.
C13_CopyInsertsNewNode ==
    active_stream # NoStream =>
        \A index \in Live, size \in Sizes \ {1} :
            (/\ Holds(index) /\ variables[index].data # NullPtr
             /\ variables[index].size = 1) =>
                /\ IsCopyOf(jit_var_set_size(State, index, size, TRUE),
                            index, size)
                /\ jit_var_set_size(State, index, size, TRUE).idx \notin Live

\* C13 as stated, second half: every other resize to a different size is
\* rejected.
C13_OtherwiseRejected ==
    active_stream # NoStream =>
        \A index \in Live, size \in Sizes, copy \in BOOLEAN :
            (/\ Holds(index) /\ variables[index].size # size
             /\ ~(variables[index].data # NullPtr
                   /\ variables[index].size = 1 /\ copy)) =>
                jit_var_set_size(State, index, size, copy).result = "raise"

\* ---- C14 ---------------------------------------------------------------
\* the resize of index to size must be rejected: the variable is
\* materialized or referenced by the trace, and is not a scalar being copied
MustReject(index, size, copy) ==
    /\ variables[index].data # NullPtr \/ variables[index].ref_count_int > 0
    /\ variables[index].size # size
    /\ variables[index].size # 1 \/ ~copy

\* C14: a resize that must be rejected raises the resize error and leaves
\* the whole state (sizes, reference counts, variable table, CSE table,
\* pending sets) unchanged; a resize to the current size returns the same
\* id and changes nothing.
C14_RejectedResizeChangesNothing ==
    \A index \in Live, size \in Sizes, copy \in BOOLEAN :
        /\ MustReject(index, size, copy) =>
               jit_var_set_size(State, index, size, copy)
                   = Raise(State, ResizeError)
        /\ variables[index].size = size =>
               jit_var_set_size(State, index, size, copy) = Ok(State, index)

\* a materialized non-scalar and an unevaluated variable that the trace
\* references are live, with pending work, and their resizes are rejected
C14_Witness ==
    /\ active_stream # NoStream /\ todo[active_stream] # {}
    /\ \E index \in Live :
          /\ variables[index].data # NullPtr /\ MustReject(index, 1, TRUE)
          /\ jit_var_set_size(State, index, 1, TRUE).result = "raise"
    /\ \E index \in Live :
          /\ variables[index].data = NullPtr
          /\ MustReject(index, MaxSize, FALSE)
          /\ jit_var_set_size(State, index, MaxSize, FALSE).result = "raise"

\* ---- C15 ---------------------------------------------------------------
\* the registered addresses and one that was never registered
Addresses == 1..(MaxPtr + 1)

\* C15 as stated, second half: while the pointer literal of address p is
\* live, register_ptr of a distinct address q returns an id distinct from
\* the literal of p.
C15_DistinctAddressesDistinctIds ==
    \A p \in DOMAIN variable_from_ptr, u \in {"crash", "null"} :
      \A q \in Addresses \ {p} :
        /\ Returned(jit_var_register_ptr(State, q, u))
        /\ jit_var_register_ptr(State, q, u).idx # variable_from_ptr[p]

\* C15, first half: while the pointer literal of address p is live,
\* register_ptr(p) returns its id and adds one external reference.
C15_SameAddressSameId ==
    \A p \in DOMAIN variable_from_ptr, u \in {"crash", "null"} :
        /\ Returned(jit_var_register_ptr(State, p, u))
        /\ jit_var_register_ptr(State, p, u).idx = variable_from_ptr[p]
        /\ jit_var_register_ptr(State, p, u).S =
              [State EXCEPT !.variables[variable_from_ptr[p]].ref_count_ext
                                = @ + 1]

\* ---- C16 ---------------------------------------------------------------
\* R is the outcome of a registration that made a variable of its own:
\* a new id with one external reference, in no pending set
IsFreshRegistration(R) ==
    /\ Returned(R) /\ R.idx \notin Live
    /\ ExtOf(R.S, R.idx) = 1
    /\ \A st \in DOMAIN R.S.todo : R.idx \notin R.S.todo[st]

\* C16 as stated: while a registered buffer is live, registering another
\* region of the same type and size yields a distinct id whose external
\* reference count is 1 and which is in no pending set.
C16_RegistrationsAreDistinct ==
    \A index \in Live, ptr \in HostPtrs, u \in {"crash", "null"} :
        (/\ variables[index].data # NullPtr
         /\ variables[index].stmt = NullStmt
         /\ ~variables[index].direct_pointer) =>
            IsFreshRegistration(
                jit_var_register(State, variables[index].type, ptr,
                                 variables[index].size, FALSE, u))

\* ---- C17 ---------------------------------------------------------------
\* C17: without an active stream, every append of zero to three operands
\* (null, unknown or incompatible operands included) raises the stream
\* error and leaves the whole state unchanged.
C17_NoStreamAppendRaises ==
    active_stream = NoStream =>
        \A q \in Requests, t \in Types, s \in Stmts :
            AppendCall(q, t, s, 0) = Raise(State, StreamError)

\* after a shutdown the host still holds two variables of incompatible
\* sizes; appending their sum raises the stream error, not the shape error
C17_Witness ==
    /\ active_stream = NoStream /\ variable_index > 1
    /\ \E a, b \in Live :
          /\ Holds(a) /\ Holds(b)
          /\ Incompatible({variables[a].size, variables[b].size},
                          ResultSize({variables[a].size, variables[b].size}))
          /\ jit_trace_append_2(State, "f32", AddStmt, a, b).what
                = StreamError
          /\ jit_trace_append_2(State, "f32", AddStmt, a, 0).what
                = StreamError

\* ---- C18 ---------------------------------------------------------------
\* C18: with an active stream, a one-, two- or three-operand append in
\* which some operand id is 0 raises the uninitialized-variable error and
\* leaves the whole state unchanged (no variable created, no reference
\* count, CSE entry or pending set changed), whatever the other operands.
C18_NullOperandRaises ==
    active_stream # NoStream =>
        \A t \in Types, s \in Stmts, a, b, c \in Args :
            /\ a = 0 =>
                  jit_trace_append_1(State, t, s, a)
                      = Raise(State, NullOperandError)
            /\ (a = 0 \/ b = 0) =>
                  jit_trace_append_2(State, t, s, a, b)
                      = Raise(State, NullOperandError)
            /\ (a = 0 \/ b = 0 \/ c = 0) =>
                  jit_trace_append_3(State, t, s, a, b, c, 0)
                      = Raise(State, NullOperandError)

\* the host holds two live variables, work is pending, and an append
\* mixing them with a null operand raises
C18_Witness ==
    /\ active_stream # NoStream /\ todo[active_stream] # {}
    /\ \E a, b \in Live :
          /\ a # b /\ Holds(a) /\ Holds(b)
          /\ jit_trace_append_3(State, "f32", ScatterStmt, a, 0, b, 0).what
                = NullOperandError
          /\ jit_trace_append_2(State, "f32", AddStmt, 0, b).what
                = NullOperandError

\* ---- C19 ---------------------------------------------------------------
\* the outcome R is a recoverable error that left the state as it was
IsRecoverableError(R) == R.result = "raise" /\ R.S = State

\* C19 as stated: an operation given a nonzero id that is not in the
\* variable table ends in a recoverable error and leaves the state
\* unchanged.
C19_UnknownIdIsRecoverable ==
    (active_stream # NoStream /\ Live # {}) =>
        \A index \in Ids \ Live :
            /\ IsRecoverableError(HostIncRef(State, index))
            /\ IsRecoverableError(HostDecRef(State, index))
            /\ IsRecoverableError(jit_var_set_size(State, index, 1, FALSE))
            /\ IsRecoverableError(jit_var_mark_dirty(State, index))
            /\ IsRecoverableError(
                   jit_trace_append_1(State, "f32", AddStmt, index))

\* ---- C20 ---------------------------------------------------------------
\* C20 as stated: dec_ref_ext on a live variable without external
\* references ends in a recoverable error; the counter stays at zero and
\* the variable stays alive.
C20_UnderflowIsRecoverable ==
    active_stream # NoStream =>
        \A index \in Live :
            variables[index].ref_count_ext = 0 =>
                /\ HostDecRef(State, index).result = "raise"
                /\ index \in DOMAIN HostDecRef(State, index).S.variables
                /\ ExtOf(HostDecRef(State, index).S, index) = 0

\* ---- C21 ---------------------------------------------------------------
\* closed sequences of jit_inc_ref_ext / jit_dec_ref_ext calls on index
RoundTrip(S, index) == jit_dec_ref_ext(jit_inc_ref_ext(S, index), index)
RoundTripNested(S, index) ==
    jit_dec_ref_ext(RoundTrip(jit_inc_ref_ext(S, index), index), index)

\* in state S the counts of index are those of the current state
SameCounts(S, index) ==
    /\ ~S.fail /\ index \in DOMAIN S.variables
    /\ S.variables[index].ref_count_ext = variables[index].ref_count_ext
    /\ S.variables[index].ref_count_int = variables[index].ref_count_int

\* C21 as stated: after a closed sequence of inc_ref_ext / dec_ref_ext
\* calls on a live variable, the variable is still live and its external
\* and internal reference counts are what they were.
C21_RefcountRoundTrip ==
    \A index \in Live :
        /\ SameCounts(RoundTrip(State, index), index)
        /\ SameCounts(RoundTrip(RoundTrip(State, index), index), index)
        /\ SameCounts(RoundTripNested(State, index), index)

\* the round trip on the thread's own stream
C21_RoundTripWithStream ==
    active_stream # NoStream =>
        \A index \in Live :
            /\ SameCounts(RoundTrip(State, index), index)
            /\ SameCounts(RoundTrip(RoundTrip(State, index), index), index)
            /\ SameCounts(RoundTripNested(State, index), index)

\* ---- C22 ---------------------------------------------------------------
\* C22 as stated: the id the next variable receives is not 0 and is above
\* every id in the variable table, so that no new variable receives an id
\* that is in use or was handed out before.
C22_NextIdIsUnused ==
    ~terminated =>
        /\ variable_index >= 1
        /\ \A index \in Live : index < variable_index

\* the id counter never runs backwards while the process lives
C22_IdsIncrease ==
    [][~terminated' => variable_index' >= variable_index]_vars

\* ---- C23 ---------------------------------------------------------------
\* the requests the host passes to jit_init with the backends it finds
InitCalls ==
    {c \in BOOLEAN \X BOOLEAN \X BOOLEAN \X BOOLEAN \X (0..MaxDevice) :
        c[1] \/ c[2]}

InitCall(S, c) == jit_init(S, c[1], c[2], c[3], c[4], c[5])

\* the state after the host, once initialized from S, selected the host
\* device and appended a node
Worked(S) ==
    jit_trace_append_0(jit_device_set(S, HostDevice, 0, "crash").S,
                       "f32", MovStmt)

\* a further jit_init in the state R.S the program reached changes nothing
NoFurtherInit(R) ==
    Returned(R) => \A c \in InitCalls : InitCall(R.S, c) = Ok(R.S, 0)

\* C23 as stated, first half: once jit_init has run, and the program has
\* gone on without a shutdown, a further jit_init changes no state.
C23_InitIsIdempotent ==
    ~terminated =>
        \A c \in InitCalls : NoFurtherInit(Worked(InitCall(State, c).S))

\* C23 as stated, second half: after a shutdown, a further jit_init makes
\* device_set and trace_append work again.
C23_ReinitWorks ==
    (~terminated /\ ~has_llvm /\ ~has_cuda) =>
        \A c \in InitCalls : Returned(Worked(InitCall(State, c).S))

\* ---- C24 ---------------------------------------------------------------
\* event e occurs in log, and where
Occurs(log, e) == \E i \in 1..Len(log) : log[i] = e
Pos(log, e) == CHOOSE i \in 1..Len(log) : log[i] = e
Precedes(log, e1, e2) ==
    Occurs(log, e1) /\ (Occurs(log, e2) => Pos(log, e1) < Pos(log, e2))

\* the releases of kernels, registry, allocator, contexts and backends
Releases ==
    {<<"kernels">>, <<"registry">>, <<"malloc">>, <<"contexts">>,
     <<"unload">>}

\* a stream with queued work: a CUDA stream, or a host stream of a build
\* with the thread pool (others run every kernel synchronously)
HasQueue(key, tbb) == key[1] # HostDevice \/ tbb

C24_Post(R, light, tbb) ==
    Returned(R) =>
        /\ \A key \in DOMAIN todo :
              /\ Cardinality({i \in 1..Len(R.S.log) :
                                 R.S.log[i] = <<"destroy", key>>}) = 1
              /\ HasQueue(key, tbb) =>
                    /\ Precedes(R.S.log, <<"flush", key>>, <<"sync", key>>)
                    /\ Precedes(R.S.log, <<"sync", key>>, <<"destroy", key>>)
                    /\ \A e \in Releases :
                          Precedes(R.S.log, <<"sync", key>>, e)
              /\ \A e \in Releases :
                    Precedes(R.S.log, <<"destroy", key>>, e)
        /\ DOMAIN R.S.todo = {}
        /\ ~R.S.has_llvm /\ ~R.S.has_cuda
        /\ Occurs(R.S.log, <<"unload">>) <=> light = 0

C25_LightShutdownReturns ==
    ~terminated =>
        \A tbb \in BOOLEAN : Returned(jit_shutdown(State, 1, tbb))

\* ---- C26 ---------------------------------------------------------------
\* C26 as stated: on the host device the stream argument is ignored, so
\* device_set(-1, s1) and device_set(-1, s2) select the same stream and
\* the same pending set: there is at most one host stream, and selecting
\* the host device with any stream number leaves the thread on it.
C26_HostStreamIgnored ==
    /\ \A k1, k2 \in DOMAIN todo :
          (k1[1] = HostDevice /\ k2[1] = HostDevice) => k1 = k2
    /\ (active_stream # NoStream /\ todo[active_stream] # {}) =>
          \A st \in 0..(MaxStream - 1) :
              (active_stream[1] = HostDevice) =>
                  jit_device_set(State, HostDevice, st, "crash").S
                      .active_stream = active_stream

\* ---- C27 ---------------------------------------------------------------
\* device is outside -1 .. device_count() - 1
OutOfRange(device) == device < HostDevice \/ device >= devices

\* C27 as stated: device_set with a device index outside
\* -1 .. device_count() - 1 raises a recoverable error, creates no stream
\* and leaves the active stream unchanged.
C27_OutOfRangeRaises ==
    ~terminated =>
        \A d \in Devices, st \in 0..(MaxStream - 1),
           oob \in {"crash", "proceed"} :
            OutOfRange(d) =>
                jit_device_set(State, d, st, oob) = Raise(State, DeviceError)

\* without the CUDA backend every index other than -1 is rejected
C27_RejectedWithoutCuda ==
    (~terminated /\ ~has_cuda) =>
        \A d \in Devices \ {HostDevice}, st \in 0..(MaxStream - 1),
           oob \in {"crash", "proceed"} :
            jit_device_set(State, d, st, oob) = Raise(State, DeviceError)

\* ---- C28 ---------------------------------------------------------------
\* thread 1 is blocked in a driver call that waits for a stream
Blocked == pc \in {"sync_stream_wait", "sync_device_wait", "shutdown_wait"}

\* C28 as stated: while a thread is blocked in sync_stream, sync_device or
\* the stream synchronization of shutdown, the lock is free, so that
\* another thread can acquire it and complete a trace_append.
C28_LockFreeWhileBlocked ==
    (~terminated /\ Blocked) => (mutex = 0 /\ ENABLED Thread2Append("f32", MovStmt))

\* the part that holds: the lock is free while a thread is blocked in
\* sync_stream or sync_device
C28_LockFreeWhileSyncing ==
    (~terminated /\ pc \in {"sync_stream_wait", "sync_device_wait"}) =>
        mutex = 0

\* ---- C29 ---------------------------------------------------------------
\* the variables of S that own their buffer
Owners(S) ==
    {i \in DOMAIN S.variables :
        S.variables[i].data # NullPtr /\ S.variables[i].free_variable}

\* the buffers of S that were mapped with free = 0
Borrowed(S) ==
    {S.variables[i].data : i \in {j \in DOMAIN S.variables :
        /\ S.variables[j].data # NullPtr
        /\ ~S.variables[j].free_variable
        /\ ~S.variables[j].direct_pointer}}

\* the calls that can destroy a variable or move its buffer
OwnerCalls ==
    {HostDecRef(State, i) : i \in Ids} \cup
    {jit_var_migrate(State, i, m) : i \in {j \in Ids : Holds(j)},
                                    m \in BOOLEAN} \cup
    {Checked(jit_eval(State), 0)}

\* every buffer is owned by at most one variable
SingleOwner(S) ==
    \A i, j \in Owners(S) :
        S.variables[i].data = S.variables[j].data => i = j

\* a call that went from the current state to R.S freed each buffer at
\* most once, freed the buffer of every owner it destroyed, freed no
\* buffer that an owner still refers to
FreesOwned(R) ==
    /\ \A m, n \in DOMAIN R.S.freed : R.S.freed[m] = R.S.freed[n] => m = n
    /\ \A i \in Owners(State) \ DOMAIN R.S.variables :
          Occurs(R.S.freed, State.variables[i].data)
    /\ \A i \in Owners(R.S) : ~Occurs(R.S.freed, R.S.variables[i].data)

\* C29: in every reachable state each owned buffer has one owner; a call
\* frees the buffer of each owner it destroys exactly once and nothing an
\* owner still refers to; and a buffer mapped with free = 0 is never
\* freed, also not by a migration.
C29_BufferOwnership ==
    /\ SingleOwner(State)
    /\ \A R \in OwnerCalls :
          R.result = "ok" =>
             /\ FreesOwned(R)
             /\ \A p \in Borrowed(State) : ~Occurs(R.S.freed, p)

\* the part that holds: owners are unique and a destroyed owner's buffer
\* is freed exactly once
C29_OwnedFreedOnce ==
    /\ SingleOwner(State)
    /\ \A R \in OwnerCalls : R.result = "ok" => FreesOwned(R)

\* ---- C30 ---------------------------------------------------------------
\* the live variables that pin b
Pins(b) == {i \in DOMAIN variables : variables[i].extra_dep = b}

\* the references the host holds to id
HostHeld(id) == IF id \in DOMAIN held THEN held[id] ELSE 0

\* a scatter of value through pointer ptr, issued while b is the
\* scatter/gather operand
PinnedScatter(S, ptr, value, b) ==
    jit_trace_append_3(S, "f32", ScatterStmt, ptr, ptr, value, b)

\* the host gives back the reference that the append R returned
Dropped(R) == jit_dec_ref_ext(R.S, R.idx)

\* the host issues the scatter once, or twice, and gives back what it got
ScatterOnce(S, ptr, value, b) == Dropped(PinnedScatter(S, ptr, value, b))
ScatterTwice(S, ptr, value, b) ==
    jit_dec_ref_ext(
        Dropped(PinnedScatter(PinnedScatter(S, ptr, value, b).S,
                              ptr, value, b)),
        PinnedScatter(S, ptr, value, b).idx)

\* the scatter is appended to S without error and without an evaluation
Scatters(S, ptr, value, b) ==
    /\ PinnedScatter(S, ptr, value, b).result = "ok"
    /\ PinnedScatter(S, ptr, value, b).S.evals = S.evals

\* in state S the variables are those of the current state, and b has the
\* external reference count it has now
PinReleased(S, b) ==
    /\ ~S.fail
    /\ DOMAIN S.variables = DOMAIN variables
    /\ S.variables[b].ref_count_ext = variables[b].ref_count_ext

\* C30: while a variable with extra_dep = b is live, b is live, whatever
\* the host still holds of b; b's external reference count is the number
\* of references the host holds plus one for each live variable that pins
\* b; and once the host has given back the scatter nodes it appended, so
\* that they are destroyed, b's count is what it was before.
C30_PinKeepsTargetAlive ==
    ~terminated =>
       /\ \A i \in DOMAIN variables :
             variables[i].extra_dep # 0 =>
                variables[i].extra_dep \in DOMAIN variables
       /\ \A b \in DOMAIN variables :
             variables[b].ref_count_ext = HostHeld(b) + Cardinality(Pins(b))
       /\ \A ptr, value \in DOMAIN variables, b \in ScatterTargets \ {0} :
             /\ Scatters(State, ptr, value, b) =>
                   PinReleased(ScatterOnce(State, ptr, value, b), b)
             /\ (/\ Scatters(State, ptr, value, b)
                 /\ Scatters(PinnedScatter(State, ptr, value, b).S,
                             ptr, value, b)) =>
                   PinReleased(ScatterTwice(State, ptr, value, b), b)

\* the same with one scatter node per target
C30_SingleScatterReleasesPin ==
    ~terminated =>
       \A ptr, value \in DOMAIN variables, b \in ScatterTargets \ {0} :
          (/\ Scatters(State, ptr, value, b)
           /\ PinnedScatter(State, ptr, value, b).idx
                 \notin DOMAIN variables) =>
             PinReleased(ScatterOnce(State, ptr, value, b), b)

\* the part that holds: a pinned variable is live as long as the variable
\* that pins it
C30_PinnedIsLive ==
    \A i \in DOMAIN variables :
        variables[i].extra_dep # 0 =>
           variables[i].extra_dep \in DOMAIN variables

\* ---- C31 ---------------------------------------------------------------
\* C31: in every reachable state every operand of a live variable has a
\* smaller id than the variable, also for variables created after a
\* shutdown / init cycle; so the dependency graph is acyclic.
C31_DepsArePriorIds ==
    \A i \in DOMAIN variables :
        \A k \in 1..3 :
            variables[i].dep[k] # 0 => variables[i].dep[k] < i

\* ---- C32 ---------------------------------------------------------------
\* the variables of the current state that are gone in state S
Removed(S) == DOMAIN variables \ DOMAIN S.variables

\* the number of operand slots of the variables in from that name i
SlotsFrom(from, i) ==
    Cardinality({rk \in from \X (1..3) : variables[rk[1]].dep[rk[2]] = i})

\* the number of variables in from that pin i
PinsFrom(from, i) ==
    Cardinality({r \in from : variables[r].extra_dep = i})

\* jit_dec_ref_ext(index) took the current state to S: index is gone;
\* what remains lost one internal reference per operand slot, and one
\* external reference per pin, of the variables that are gone, has a
\* counter above zero and names no variable that is gone; what is gone
\* besides index had no references but those of variables that are gone
Cascaded(S, index) ==
    /\ index \in Removed(S)
    /\ \A i \in DOMAIN S.variables :
          /\ S.variables[i].ref_count_int =
                variables[i].ref_count_int - SlotsFrom(Removed(S), i)
          /\ S.variables[i].ref_count_ext =
                variables[i].ref_count_ext - PinsFrom(Removed(S), i)
          /\ (SlotsFrom(Removed(S), i) + PinsFrom(Removed(S), i) > 0) =>
                (S.variables[i].ref_count_int > 0 \/
                 S.variables[i].ref_count_ext > 0)
          /\ \A k \in 1..3 : S.variables[i].dep[k] \notin Removed(S)
    /\ \A r \in Removed(S) \ {index} :
          /\ variables[r].ref_count_int = SlotsFrom(Removed(S), r)
          /\ variables[r].ref_count_ext = PinsFrom(Removed(S), r)

\* the variables whose last reference the host can drop
LastReference ==
    {i \in DOMAIN variables : /\ variables[i].ref_count_ext = 1
                              /\ variables[i].ref_count_int = 0}

\* C32: when dec_ref_ext drops the last reference of a variable, the
\* variable is removed, each operand loses one internal reference per
\* operand slot, every operand that thereby has no reference left is
\* removed in the same call, transitively, and nothing that is still
\* referenced by the host or by a live variable is removed.
C32_CascadingRelease ==
    \A index \in LastReference :
        HostDecRef(State, index).result = "ok" =>
            Cascaded(HostDecRef(State, index).S, index)

\* a state where dropping the last reference of a variable removes it and
\* an operand of it, while another variable stays
C32_Witness ==
    \E index \in LastReference :
        /\ HostDecRef(State, index).result = "ok"
        /\ Cardinality(Removed(HostDecRef(State, index).S)) >= 2
        /\ \E i \in DOMAIN HostDecRef(State, index).S.variables :
              SlotsFrom(Removed(HostDecRef(State, index).S), i) > 0

\* ---- C33 ---------------------------------------------------------------
RECURSIVE SumTsize(_, _)
\* the sum of tsize over the nonzero operands among the first k of deps
SumTsize(deps, k) ==
    IF k = 0 THEN 0
    ELSE SumTsize(deps, k - 1) +
         (IF deps[k] \in DOMAIN variables THEN variables[deps[k]].tsize
          ELSE 0)

\* variable i has the template size the operands give it
TsizeFollowsDeps(i) == variables[i].tsize = 1 + SumTsize(variables[i].dep, 3)

\* C33: in every reachable state every live variable has tsize = 1 + the
\* sum of tsize over its nonzero operands, a leaf has tsize 1; pointer
\* literals and nodes appended after a forced evaluation included.
C33_TsizeIsOnePlusOperands ==
    \A i \in DOMAIN variables : TsizeFollowsDeps(i)

\* ---- C34 ---------------------------------------------------------------
\* the ids the host can pass to jitc_var_migrate
Migratable == {0} \cup {i \in Ids : Holds(i)}

\* the variable needs an evaluation before it can be migrated
NeedsEval(i) == variables[i].data = NullPtr \/ variables[i].dirty

\* the call R of jit_var_migrate(i, ..) evaluated first when that was
\* needed, then called jit_malloc_migrate once, with a pointer that is
\* not null and not dirty, and stored what it returned
MigratedAfterEval(R, i, moves) ==
    /\ R.S.evals = (IF NeedsEval(i) THEN 1 ELSE 0)
    /\ Len(R.S.migrated) = 1
    /\ R.S.migrated[1].ptr # NullPtr
    /\ ~R.S.migrated[1].dirty
    /\ R.S.variables[i].data =
          (IF moves THEN MigratedPtr(R.S.migrated[1].ptr, i)
           ELSE R.S.migrated[1].ptr)

\* C34: migrate does nothing for id 0; for a variable that is unevaluated
\* or dirty it evaluates first and then hands the variable's data
\* pointer to malloc_migrate and stores the returned pointer, so that
\* malloc_migrate never gets a null pointer or dirty data.
C34_MigrateEvaluatesFirst ==
    \A i \in Migratable, moves \in BOOLEAN :
        jit_var_migrate(State, i, moves).result = "ok" =>
            IF i = 0 THEN jit_var_migrate(State, i, moves).S = State
            ELSE MigratedAfterEval(jit_var_migrate(State, i, moves),
                                   i, moves)

\* the part that holds: a variable pending on the calling thread's stream
\* is migrated after its evaluation
C34_PendingIsEvaluatedFirst ==
    \A i \in Migratable \ {0}, moves \in BOOLEAN :
        (/\ jit_var_migrate(State, i, moves).result = "ok"
         /\ active_stream # NoStream
         /\ variables[i].data = NullPtr => i \in todo[active_stream]) =>
            MigratedAfterEval(jit_var_migrate(State, i, moves), i, moves)

\* ---- C35 ---------------------------------------------------------------
\* C35: in every reachable state every id in the pending set of any stream
\* is the id of a variable in the variable table, whichever stream was
\* active when the variable's references were dropped.
C35_PendingAreLive ==
    \A key \in DOMAIN todo : todo[key] \subseteq DOMAIN variables

\* ---- C36 ---------------------------------------------------------------
\* C36: in every reachable state every id stored in the CSE table is the
\* id of a live variable, also after set_size changed a variable's size;
\* so an empty variable table implies an empty CSE table.
C36_NoStaleCseEntry ==
    /\ \A key \in DOMAIN variable_from_key :
          variable_from_key[key] \in DOMAIN variables
    /\ variables = <<>> => variable_from_key = <<>>

\* ---- C37 ---------------------------------------------------------------
\* in state S the pointer-literal table maps p to i exactly when i is a
\* live pointer literal with data = p
PtrTableExact(S) ==
    /\ \A p \in DOMAIN S.variable_from_ptr :
          /\ S.variable_from_ptr[p] \in DOMAIN S.variables
          /\ S.variables[S.variable_from_ptr[p]].direct_pointer
          /\ S.variables[S.variable_from_ptr[p]].data = p
    /\ \A i \in DOMAIN S.variables :
          S.variables[i].direct_pointer =>
             /\ S.variables[i].data \in DOMAIN S.variable_from_ptr
             /\ S.variable_from_ptr[S.variables[i].data] = i

\* the pointer literals the host holds
HeldLiterals == {i \in DOMAIN variables : Holds(i) /\ variables[i].direct_pointer}

\* C37: in every reachable state the pointer-literal table maps address p
\* to id i if and only if variable i is live, is a pointer literal and has
\* data = p; this is so after a further registration and after a
\* migration of a pointer literal, and giving back the last reference to
\* a pointer literal finds and removes its entry.
C37_PointerTableIsExact ==
    /\ PtrTableExact(State)
    /\ \A i \in HeldLiterals, moves \in BOOLEAN :
          /\ jit_var_migrate(State, i, moves).result = "ok" =>
                PtrTableExact(jit_var_migrate(State, i, moves).S)
          /\ (/\ jit_var_migrate(State, i, moves).result = "ok"
              /\ active_stream # NoStream
              /\ variables[i].ref_count_ext = 1) =>
                ~jit_dec_ref_ext(jit_var_migrate(State, i, moves).S, i).fail
    /\ \A p \in Addresses :
          jit_var_register_ptr(State, p, "null").result = "ok" =>
             PtrTableExact(jit_var_register_ptr(State, p, "null").S)

\* the part that holds: a program that registers one address and never
\* migrates it keeps the table exact
C37_OneLiteralIsIndexed == PtrTableExact(State)

\* ---- C38 ---------------------------------------------------------------
\* the materialized scalars of which the host holds two references
SharedScalars ==
    {x \in DOMAIN variables : /\ x \in DOMAIN held /\ held[x] >= 2
                              /\ variables[x].data # NullPtr
                              /\ variables[x].size = 1}

\* a copying resize of x in state S
CopyResize(S, x, n) == jit_var_set_size(S, x, n, TRUE)

\* R1 is a copying resize of x to n1 in the current state and R2 one to
\* n2 after it: the results have the sizes asked for, and each call moved
\* one external reference of x to the result, which depends on x
TwoCopies(R1, R2, x, n1, n2) ==
    /\ R1.idx \in DOMAIN R2.S.variables /\ R2.idx \in DOMAIN R2.S.variables
    /\ R2.S.variables[R1.idx].size = n1
    /\ R2.S.variables[R2.idx].size = n2
    /\ x \in DOMAIN R2.S.variables
    /\ R1.S.variables[x].ref_count_ext = variables[x].ref_count_ext - 1
    /\ R2.S.variables[x].ref_count_ext = variables[x].ref_count_ext - 2
    /\ R1.S.variables[x].ref_count_int = variables[x].ref_count_int + 1
    /\ R2.S.variables[x].ref_count_int = variables[x].ref_count_int + 2

\* C38: two copying resizes of one materialized scalar to different sizes
\* return variables that have these sizes after both calls, and each call
\* moves one external reference of the scalar to the variable it returns.
C38_CopiesKeepTheirSize ==
    active_stream # NoStream =>
        \A x \in SharedScalars :
            \A n1 \in Sizes \ {1} : \A n2 \in Sizes \ {1, n1} :
                (/\ CopyResize(State, x, n1).result = "ok"
                 /\ CopyResize(CopyResize(State, x, n1).S, x, n2).result
                        = "ok") =>
                    TwoCopies(CopyResize(State, x, n1),
                              CopyResize(CopyResize(State, x, n1).S, x, n2),
                              x, n1, n2)

\* ---- C39 ---------------------------------------------------------------
\* a thread's active_stream is unset or names a stream of the stream table
StreamIsPresent(stream) == stream = NoStream \/ stream \in DOMAIN todo

\* C39: in every reachable state the active_stream of every host thread is
\* unset or refers to a stream that is in the stream table; after one
\* thread ran shutdown no other thread has an active_stream that was
\* destroyed.
C39_ActiveStreamsArePresent ==
    /\ StreamIsPresent(active_stream)
    /\ StreamIsPresent(active_stream2)

\* the part that holds: the active_stream of the thread that ran shutdown
C39_OwnActiveStreamIsPresent == StreamIsPresent(active_stream)

\* ---- C40 ---------------------------------------------------------------
\* the call R of jit_dec_ref_ext(i) returned, took one external reference
\* from i and freed i when no reference was left
LastReferenceDropped(R, i) ==
    /\ R.result = "ok"
    /\ IF variables[i].ref_count_int = 0
       THEN i \notin DOMAIN R.S.variables
       ELSE /\ i \in DOMAIN R.S.variables
            /\ R.S.variables[i].ref_count_ext = 0
            /\ R.S.variables[i].ref_count_int = variables[i].ref_count_int

\* C40: in every state in which a variable with one external reference is
\* live, dec_ref_ext on it completes: the count is decremented and the
\* variable is freed if it has no internal references; also when the
\* calling thread has no active stream, as after a shutdown.
C40_LastDecRefCompletes ==
    \A i \in DOMAIN variables :
        variables[i].ref_count_ext = 1 =>
            LastReferenceDropped(HostDecRef(State, i), i)

\* the part that holds: the call completes when the calling thread has an
\* active stream
C40_CompletesWithStream ==
    active_stream # NoStream =>
        \A i \in DOMAIN variables :
            variables[i].ref_count_ext = 1 =>
                LastReferenceDropped(HostDecRef(State, i), i)

====
